---- MODULE Spec2Model ----
(***************************************************************************)
(* A model of lib/model/sharedpullerstate.go: the sharedPullerState        *)
(* tracker with its lockedWriterAt (first half of the file) and the       *)
(* receive-only folder's Revert with its deleteQueue (second half).       *)
(*                                                                         *)
(* Spec          the tracker, driven by concurrent worker goroutines.     *)
(* SpecFair      the same under fair scheduling.                          *)
(* SpecProtocol  the tracker with every block recorded in the callers'    *)
(*               order: copied (origin, then done) or pulled.             *)
(* SpecRevert    one run of receiveOnlyFolder.Revert over a small store.  *)
(***************************************************************************)
EXTENDS Integers, Sequences, FiniteSets, TLC

\* ------------------------------------------------------------------ bounds

\* Number of worker goroutines sharing one tracker.
NumWorkers == 2
\* Largest number of blocks (copyTotal = copyNeeded) a tracker is built with.
MaxBlocks == 1
\* How many recording calls (copyDone, pullDone, ...) a run makes in total.
MaxCalls == 2
\* file.BlockSize() of the file being pulled, scaled down.
BlockSize == 4

Workers == 1 .. NumWorkers

\* The nil error and the errors the environment can produce.
NoErr == "nil"
FailErrs == {"eA", "eB"}
ErrChmod == "setting perms on temp file"
ErrLchown == "setting owner on temp file"
ErrOpen == "opening temp file"
ErrTruncate == "truncate"
ErrClose == "close"

\* Identities of the descriptors (and of the lockedWriterAt wrapping each).
FdIds == 1 .. 2

\* The immutable fields of a tracker that the modelled code reads.
Configs ==
  { [reused |-> 0, ignorePerms |-> FALSE, sparse |-> TRUE, symlink |-> FALSE],
    [reused |-> 1, ignorePerms |-> FALSE, sparse |-> TRUE, symlink |-> FALSE],
    [reused |-> 1, ignorePerms |-> TRUE,  sparse |-> TRUE, symlink |-> TRUE] }

\* Offsets of the blocks handed to copyDone and pullDone.
Offsets == { k * BlockSize : k \in 0 .. (MaxBlocks - 1) }

VARIABLES
  \* sharedPullerState, immutable part
  cfg,
  \* sharedPullerState, mutable part (guarded by mut)
  err, writer, copyTotal, pullTotal, copyOrigin, copyOriginShifted,
  copyNeeded, pullNeeded, updated, closed, available, availableUpdated,
  mut,
  \* the lockedWriterAt objects: lock state per wrapper
  wlock, rlocked,
  \* the filesystem: descriptors and the temp file
  fd, hidden, tempExists,
  \* the worker goroutines
  pc, held, closeErr,
  \* time.Now() as a logical clock
  clock,
  \* what the call that just returned gave back (NoRet: nothing)
  ret,
  \* history, read only by the properties
  firstErr, attempts, trueReturns, wroteClosed, unhides, inflight, lockedOpen

varsT == << cfg, err, writer, copyTotal, pullTotal, copyOrigin,
            copyOriginShifted, copyNeeded, pullNeeded, updated, closed,
            available, availableUpdated, mut, wlock, rlocked, fd, hidden,
            tempExists, pc, held, closeErr, clock, ret, firstErr,
            attempts, trueReturns, wroteClosed, unhides, inflight, lockedOpen >>

VARIABLES
  \* the metadata store (name -> FileInfo), as it was at the start and now
  store0, store,
  \* the order in which WithHave visits the names, and the ignore matcher
  order, ignores,
  \* receiveOnlyFolder.Revert: where it is, and its locals
  rpc, idx, batch, batchSizeBytes, deleted, firstError,
  \* the deleteQueue: q.dirs, and the directories in the order handle got them
  dirs, discovered,
  \* flush: the index of its loop
  fidx,
  \* the folder: its state, the scan channel with what was sent on it, and
  \* whether a pull was scheduled
  fstate, scanChan, scanReqs, sentAfterClose, pullScheduled,
  \* the disk, the calls of deleteItemOnDisk and deleteDirOnDisk, the log
  \* lines, and the batches given to updateLocalsFromScanning
  disk, delLog, logged, updates

varsR == << store0, store, order, ignores, rpc, idx, batch, batchSizeBytes,
            deleted, firstError, dirs, discovered, fidx, fstate, scanChan,
            scanReqs, sentAfterClose, pullScheduled, disk, delLog, logged,
            updates >>

vars == << varsT, varsR >>

\* ------------------------------------------------------- pure functions

\* blocksToSize(size, num)
blocksToSize(size, num) ==
  IF num < 2 THEN size \div 2 ELSE (num - 1) * size + size \div 2

\* failLocked with the test of s.err left out: the last error wins.
failLockedLastWins(e) ==
  IF e = NoErr THEN err ELSE e

\* failLocked(e): the value of s.err after the call.
failLocked(e) ==
  IF err # NoErr \/ e = NoErr THEN err ELSE e

\* History of the attempts to record the non-nil error e: the first error
\* anybody tried to record, and how many attempts there were (up to two).
Recorded(e) ==
  /\ firstErr' = IF firstErr # NoErr \/ e = NoErr THEN firstErr ELSE e
  /\ attempts' = IF e # NoErr /\ attempts < 2 THEN attempts + 1 ELSE attempts

\* RWMutex, read side: refused while a writer holds the lock or waits for it.
RLockOK(k) == wlock[k] = "free"

\* RWMutex, write side: granted once no reader holds the lock.
LockOK(k) == rlocked[k] = {}

\* The next unused descriptor.
NextFd == Cardinality({ k \in FdIds : fd[k] # "none" }) + 1

\* Progress(): the snapshot, with the locals total and done kept beside it.
Progress ==
  LET total == cfg.reused + copyTotal + pullTotal
      done  == total - copyNeeded - pullNeeded
  IN  [ Total               |-> total,
        Reused              |-> cfg.reused,
        CopiedFromOrigin    |-> copyOrigin,
        CopiedFromOriginShifted |-> 0,
        CopiedFromElsewhere |-> copyTotal - copyNeeded - copyOrigin,
        Pulled              |-> pullTotal - pullNeeded,
        Pulling             |-> pullNeeded,
        BytesTotal          |-> blocksToSize(BlockSize, total),
        BytesDone           |-> blocksToSize(BlockSize, done),
        done                |-> done ]

\* ------------------------------------------------------------------ Init

NoRet == [op |-> "none", ok |-> FALSE, err |-> NoErr, val |-> 0]

InitTracker ==
  /\ cfg \in Configs
  /\ err = NoErr
  /\ writer = 0
  /\ copyTotal \in 0 .. MaxBlocks
  /\ copyNeeded = copyTotal
  /\ pullTotal = 0
  /\ pullNeeded = 0
  /\ copyOrigin = 0
  /\ copyOriginShifted = 0
  /\ updated = 0
  /\ closed = FALSE
  /\ available = << >>
  /\ availableUpdated = 0
  /\ mut = 0
  /\ wlock = [k \in FdIds |-> "free"]
  /\ rlocked = [k \in FdIds |-> {}]
  /\ fd = [k \in FdIds |-> "none"]
  /\ hidden = FALSE
  /\ tempExists = (cfg.reused > 0)
  /\ pc = [w \in Workers |-> "idle"]
  /\ held = [w \in Workers |-> 0]
  /\ closeErr = NoErr
  /\ clock = 0
  /\ ret = NoRet
  /\ firstErr = NoErr
  /\ attempts = 0
  /\ trueReturns = 0
  /\ wroteClosed = FALSE
  /\ unhides = 0
  /\ inflight = {}
  /\ lockedOpen = {}

\* No Revert runs: the folder is idle and its store is empty.
RevertParked ==
  /\ store0 = << >>
  /\ store = << >>
  /\ order = << >>
  /\ ignores = << >>
  /\ rpc = "parked"
  /\ idx = 0
  /\ batch = << >>
  /\ batchSizeBytes = 0
  /\ deleted = << >>
  /\ firstError = NoErr
  /\ dirs = << >>
  /\ discovered = << >>
  /\ fidx = 0
  /\ fstate = "idle"
  /\ scanChan = "nil"
  /\ scanReqs = {}
  /\ sentAfterClose = FALSE
  /\ pullScheduled = FALSE
  /\ disk = {}
  /\ delLog = << >>
  /\ logged = << >>
  /\ updates = << >>

Init == InitTracker /\ RevertParked

\* -------------------------------------------------------------- tracker

counters == << copyTotal, pullTotal, copyOrigin, copyOriginShifted,
               copyNeeded, pullNeeded, updated, available, availableUpdated,
               clock >>
locks    == << wlock, rlocked >>
files    == << fd, hidden, tempExists >>
history  == << firstErr, attempts, trueReturns, wroteClosed, unhides, inflight,
               lockedOpen >>

Returns(op, ok, e, val) ==
  ret' = [op |-> op, ok |-> ok, err |-> e, val |-> val]

\* What the filesystem answers to the calls of one tempFile().
FsAnswers ==
  [ chmod : BOOLEAN, lchown : BOOLEAN, open : BOOLEAN, truncate : BOOLEAN,
    remove : BOOLEAN ]

\* tempFileInWritableDir keeping the descriptor as s.writer when Truncate
\* failed on a reused file.
tempFileInWritableDirKeepsFd(o) ==
  LET fixPerms == cfg.reused # 0 /\ ~cfg.ignorePerms
      canOpen  == /\ o.open
                  /\ NextFd \in FdIds
                  /\ IF cfg.reused = 0 THEN ~tempExists ELSE tempExists
  IN  IF fixPerms /\ ~(o.chmod /\ tempExists)
        THEN [err |-> ErrChmod, opened |-> FALSE, kept |-> FALSE]
      ELSE IF fixPerms /\ ~o.lchown
        THEN [err |-> ErrLchown, opened |-> FALSE, kept |-> FALSE]
      ELSE IF ~canOpen
        THEN [err |-> ErrOpen, opened |-> FALSE, kept |-> FALSE]
      ELSE IF cfg.sparse /\ ~cfg.symlink /\ ~o.truncate /\ cfg.reused > 0
        THEN [err |-> ErrTruncate, opened |-> TRUE, kept |-> TRUE]
      ELSE [err |-> NoErr, opened |-> TRUE, kept |-> TRUE]

\* tempFileInWritableDir under the answers o: the error returned, whether a
\* descriptor was opened, and whether it was kept as s.writer.
tempFileInWritableDir(o) ==
  LET fixPerms == cfg.reused # 0 /\ ~cfg.ignorePerms
      canOpen  == /\ o.open
                  /\ NextFd \in FdIds
                  /\ IF cfg.reused = 0 THEN ~tempExists ELSE tempExists
  IN  IF fixPerms /\ ~(o.chmod /\ tempExists)
        THEN [err |-> ErrChmod, opened |-> FALSE, kept |-> FALSE]
      ELSE IF fixPerms /\ ~o.lchown
        THEN [err |-> ErrLchown, opened |-> FALSE, kept |-> FALSE]
      ELSE IF ~canOpen
        THEN [err |-> ErrOpen, opened |-> FALSE, kept |-> FALSE]
      ELSE IF cfg.sparse /\ ~cfg.symlink /\ ~o.truncate /\ cfg.reused > 0
        THEN [err |-> ErrTruncate, opened |-> TRUE, kept |-> FALSE]
      ELSE [err |-> NoErr, opened |-> TRUE, kept |-> TRUE]

\* tempFile(): the shared held, opening the temp file when there is none.
tempFile(w) ==
  /\ pc[w] = "idle"
  /\ mut = 0
  /\ IF err # NoErr
       THEN /\ Returns("tempFile", FALSE, err, 0)
            /\ held' = [held EXCEPT ![w] = 0]
            /\ UNCHANGED << err, writer, files, firstErr, attempts >>
     ELSE IF writer # 0
       THEN /\ Returns("tempFile", TRUE, NoErr, writer)
            /\ held' = [held EXCEPT ![w] = writer]
            /\ UNCHANGED << err, writer, files, firstErr, attempts >>
     ELSE \E o \in FsAnswers :
            LET r == tempFileInWritableDir(o)
                k == NextFd
            IN  /\ err' = failLocked(r.err)
                /\ Recorded(r.err)
                /\ writer' = IF r.kept THEN k ELSE 0
                /\ fd' = IF r.opened
                           THEN [fd EXCEPT ![k] = IF r.kept THEN "open"
                                                            ELSE "closed"]
                           ELSE fd
                /\ hidden' = (hidden \/ r.opened)
                /\ tempExists' = IF r.opened
                                   THEN (r.kept \/ ~o.remove)
                                   ELSE tempExists
                /\ held' = [held EXCEPT ![w] = IF r.kept THEN k ELSE 0]
                /\ Returns("tempFile", r.err = NoErr, r.err,
                           IF r.kept THEN k ELSE 0)
  /\ UNCHANGED << varsR, cfg, counters, closed, mut, locks, pc, closeErr,
                  trueReturns, wroteClosed, unhides, inflight, lockedOpen >>

\* fail(e)
fail(w, e) ==
  /\ pc[w] = "idle"
  /\ mut = 0
  /\ err' = failLocked(e)
  /\ Recorded(e)
  /\ ret' = NoRet
  /\ UNCHANGED << varsR, cfg, writer, counters, closed, mut, locks, files, pc,
                  held, closeErr, trueReturns, wroteClosed, unhides,
                  inflight, lockedOpen >>

\* failed()
failed(w) ==
  /\ pc[w] = "idle"
  /\ mut = 0
  /\ Returns("failed", TRUE, err, 0)
  /\ UNCHANGED << varsR, cfg, err, writer, counters, closed, mut, locks, files, pc,
                  held, closeErr, history >>

\* The part of a recording call that every one of them shares: the lock, the
\* budget of calls, the clock read by time.Now().
Recording(w, op) ==
  /\ pc[w] = "idle"
  /\ mut = 0
  /\ clock < MaxCalls
  /\ clock' = clock + 1
  /\ updated' = clock + 1
  /\ ret' = NoRet
  /\ UNCHANGED << varsR, cfg, err, writer, closed, mut, locks, files, pc, held,
                  closeErr, history >>

\* copyDone(block)
copyDone(w, off) ==
  /\ Recording(w, "copyDone")
  /\ copyNeeded' = copyNeeded - 1
  /\ available' = Append(available, off \div BlockSize)
  /\ availableUpdated' = clock + 1
  /\ UNCHANGED << copyTotal, pullTotal, copyOrigin, copyOriginShifted,
                  pullNeeded >>

\* copiedFromOrigin()
copiedFromOrigin(w) ==
  /\ Recording(w, "copiedFromOrigin")
  /\ copyOrigin' = copyOrigin + 1
  /\ UNCHANGED << copyTotal, pullTotal, copyOriginShifted, copyNeeded,
                  pullNeeded, available, availableUpdated >>

\* copiedFromOriginShifted()
copiedFromOriginShifted(w) ==
  /\ Recording(w, "copiedFromOriginShifted")
  /\ copyOrigin' = copyOrigin + 1
  /\ copyOriginShifted' = copyOriginShifted + 1
  /\ UNCHANGED << copyTotal, pullTotal, copyNeeded, pullNeeded, available,
                  availableUpdated >>

\* pullStarted with "s.copyNeeded--" left out.
pullStartedKeepsCopyNeeded(w) ==
  /\ Recording(w, "pullStarted")
  /\ copyTotal' = copyTotal - 1
  /\ pullTotal' = pullTotal + 1
  /\ pullNeeded' = pullNeeded + 1
  /\ UNCHANGED << copyNeeded, copyOrigin, copyOriginShifted, available,
                  availableUpdated >>

\* pullStarted()
pullStarted(w) ==
  /\ Recording(w, "pullStarted")
  /\ copyTotal' = copyTotal - 1
  /\ copyNeeded' = copyNeeded - 1
  /\ pullTotal' = pullTotal + 1
  /\ pullNeeded' = pullNeeded + 1
  /\ UNCHANGED << copyOrigin, copyOriginShifted, available, availableUpdated >>

\* pullDone(block)
pullDone(w, off) ==
  /\ Recording(w, "pullDone")
  /\ pullNeeded' = pullNeeded - 1
  /\ available' = Append(available, off \div BlockSize)
  /\ availableUpdated' = clock + 1
  /\ UNCHANGED << copyTotal, pullTotal, copyOrigin, copyOriginShifted,
                  copyNeeded >>

\* finalClose without its test of s.closed.
AlreadyClosedUntested == FALSE

\* finalClose, first test: the tracker was closed before.
AlreadyClosed == closed

\* The second test without its "&& s.err == nil".
NotReadyDespiteError == pullNeeded + copyNeeded # 0

\* finalClose, second test: work remains and nothing failed.
NotReady == pullNeeded + copyNeeded # 0 /\ err = NoErr

\* The end of finalClose: the close error e (nil without a writer) becomes
\* the error if there was none, the writer is dropped, the tracker is closed,
\* the temp file is unhidden, and (true, s.err) is returned.
CloseAndReturn(e) ==
  /\ err' = IF e # NoErr /\ err = NoErr THEN e ELSE err
  /\ Recorded(e)
  /\ writer' = 0
  /\ closed' = TRUE
  /\ hidden' = FALSE
  /\ unhides' = IF unhides < 2 THEN unhides + 1 ELSE unhides
  /\ trueReturns' = IF trueReturns < 2 THEN trueReturns + 1 ELSE trueReturns
  /\ Returns("finalClose", TRUE, err', 0)

\* finalClose(), up to the return or to the call of s.writer.SyncClose(),
\* whose first step is to ask for the write side of the writer's lock.
finalClose(w) ==
  /\ pc[w] = "idle"
  /\ mut = 0
  /\ IF AlreadyClosed \/ NotReady
       THEN /\ Returns("finalClose", FALSE, NoErr, 0)
            /\ UNCHANGED << err, writer, closed, mut, locks, files, pc,
                            history >>
     ELSE IF writer # 0
       THEN /\ mut' = w
            /\ pc' = [pc EXCEPT ![w] = "Lock"]
            /\ wlock' = [wlock EXCEPT ![writer] = "pending"]
            /\ inflight' = { v \in Workers :
                               pc[v] = "WriteAt" /\ held[v] = writer }
            /\ ret' = NoRet
            /\ UNCHANGED << err, writer, closed, rlocked, files,
                            firstErr, attempts, trueReturns, wroteClosed, unhides,
                            lockedOpen >>
     ELSE /\ CloseAndReturn(NoErr)
          /\ UNCHANGED << mut, locks, fd, tempExists, pc, wroteClosed,
                          inflight, lockedOpen >>
  /\ UNCHANGED << varsR, cfg, counters, held, closeErr >>

\* SyncClose going ahead without waiting for the readers of the lock.
SyncCloseLockNoWait(w) ==
  /\ pc[w] = "Lock"
  /\ wlock' = [wlock EXCEPT ![writer] = "held"]
  /\ pc' = [pc EXCEPT ![w] = "Sync"]
  /\ ret' = NoRet
  /\ UNCHANGED << varsR, cfg, err, writer, counters, closed, mut, rlocked, files,
                  held, closeErr, history >>

\* SyncClose: w.mut.Lock() is granted.
SyncCloseLock(w) ==
  /\ pc[w] = "Lock"
  /\ LockOK(writer)
  /\ wlock' = [wlock EXCEPT ![writer] = "held"]
  /\ pc' = [pc EXCEPT ![w] = "Sync"]
  /\ ret' = NoRet
  /\ UNCHANGED << varsR, cfg, err, writer, counters, closed, mut, rlocked, files,
                  held, closeErr, history >>

\* SyncClose: fd.Sync() (its error only logged), fd.Close(), w.mut.Unlock().
SyncClose(w) ==
  /\ pc[w] = "Sync"
  /\ \E syncOk \in BOOLEAN, e \in {NoErr, ErrClose} :
       /\ fd' = [fd EXCEPT ![writer] = "closed"]
       /\ closeErr' = e
  /\ wlock' = [wlock EXCEPT ![writer] = "free"]
  /\ pc' = [pc EXCEPT ![w] = "Close"]
  /\ ret' = NoRet
  /\ UNCHANGED << varsR, cfg, err, writer, counters, closed, mut, rlocked, hidden,
                  tempExists, held, history >>

\* finalClose(), from the return of SyncClose to its own.
finalCloseReturn(w) ==
  /\ pc[w] = "Close"
  /\ CloseAndReturn(closeErr)
  /\ closeErr' = NoErr
  /\ mut' = 0
  /\ pc' = [pc EXCEPT ![w] = "idle"]
  /\ inflight' = {}
  /\ UNCHANGED << varsR, cfg, counters, locks, fd, tempExists, held, wroteClosed,
                  lockedOpen >>

\* WriteAt calling fd.WriteAt without taking the read lock.
WriteAtNoLock(w) ==
  /\ pc[w] = "idle"
  /\ held[w] # 0
  /\ pc' = [pc EXCEPT ![w] = "WriteAt"]
  /\ lockedOpen' = IF fd[held[w]] = "open" THEN lockedOpen \cup {w}
                                               ELSE lockedOpen \ {w}
  /\ ret' = NoRet
  /\ UNCHANGED << varsR, cfg, err, writer, counters, closed, mut, locks, files,
                  held, closeErr, firstErr, attempts, trueReturns,
                  wroteClosed, unhides, inflight >>

\* WriteAt: w.mut.RLock() is granted.
WriteAtLock(w) ==
  /\ pc[w] = "idle"
  /\ held[w] # 0
  /\ RLockOK(held[w])
  /\ rlocked' = [rlocked EXCEPT ![held[w]] = @ \cup {w}]
  /\ pc' = [pc EXCEPT ![w] = "WriteAt"]
  /\ lockedOpen' = IF fd[held[w]] = "open" THEN lockedOpen \cup {w}
                                               ELSE lockedOpen \ {w}
  /\ ret' = NoRet
  /\ UNCHANGED << varsR, cfg, err, writer, counters, closed, mut, wlock, files,
                  held, closeErr, firstErr, attempts, trueReturns, wroteClosed,
                  unhides, inflight >>

\* WriteAt taking the tracker's lock s.mut while it holds the read side of
\* the writer's lock.
WriteAtUnderTrackerLock(w) ==
  /\ pc[w] = "WriteAt"
  /\ mut = 0
  /\ wroteClosed' = (wroteClosed \/ fd[held[w]] # "open")
  /\ Returns("WriteAt", fd[held[w]] = "open", NoErr, 0)
  /\ rlocked' = [rlocked EXCEPT ![held[w]] = @ \ {w}]
  /\ pc' = [pc EXCEPT ![w] = "idle"]
  /\ lockedOpen' = lockedOpen \ {w}
  /\ UNCHANGED << varsR, cfg, err, writer, counters, closed, mut, wlock, files,
                  held, closeErr, firstErr, attempts, trueReturns, unhides, inflight >>

\* WriteAt: w.fd.WriteAt(p, off) and w.mut.RUnlock().
WriteAt(w) ==
  /\ pc[w] = "WriteAt"
  /\ wroteClosed' = (wroteClosed \/ fd[held[w]] # "open")
  /\ Returns("WriteAt", fd[held[w]] = "open", NoErr, 0)
  /\ rlocked' = [rlocked EXCEPT ![held[w]] = @ \ {w}]
  /\ pc' = [pc EXCEPT ![w] = "idle"]
  /\ lockedOpen' = lockedOpen \ {w}
  /\ UNCHANGED << varsR, cfg, err, writer, counters, closed, mut, wlock, files,
                  held, closeErr, firstErr, attempts, trueReturns, unhides, inflight >>

\* Progress(): the snapshot is returned.
ProgressCall(w) ==
  /\ pc[w] = "idle"
  /\ mut = 0
  /\ Returns("Progress", TRUE, NoErr, Progress)
  /\ UNCHANGED << varsR, cfg, err, writer, counters, closed, mut, locks, files, pc,
                  held, closeErr, firstErr, attempts, trueReturns, wroteClosed,
                  unhides, inflight, lockedOpen >>

Next ==
  \E w \in Workers :
    \/ tempFile(w)
    \/ \E e \in FailErrs \cup {NoErr} : fail(w, e)
    \/ failed(w)
    \/ \E off \in Offsets : copyDone(w, off)
    \/ copiedFromOrigin(w)
    \/ copiedFromOriginShifted(w)
    \/ pullStarted(w)
    \/ \E off \in Offsets : pullDone(w, off)
    \/ finalClose(w)
    \/ SyncCloseLock(w)
    \/ SyncClose(w)
    \/ finalCloseReturn(w)
    \/ WriteAtLock(w)
    \/ WriteAt(w)
    \/ ProgressCall(w)

Spec == Init /\ [][Next]_vars

\* The tracker under fair scheduling: a goroutine inside WriteAt or inside
\* finalClose takes its next step when it can (the write, the sync and the
\* close return, and a lock that is free for it is granted).
Fairness ==
  \A w \in Workers :
    /\ WF_vars(WriteAt(w))
    /\ WF_vars(SyncCloseLock(w))
    /\ WF_vars(SyncClose(w))
    /\ WF_vars(finalCloseReturn(w))

SpecFair == Spec /\ Fairness

\* The tracker driven as the copier and the pullers drive it: a worker takes
\* a block that is still to be copied and either copies it (copiedFromOrigin
\* or copiedFromOriginShifted, then copyDone) or has it pulled (pullStarted,
\* then pullDone). The workers being alike, the blocks in work are counted
\* from the counters.
CopyDoneCalls == copyTotal - copyNeeded
MidCopy == copyOrigin > CopyDoneCalls
Busy == (copyOrigin - CopyDoneCalls) + pullNeeded
CanClaim == copyTotal - copyOrigin > 0 /\ Busy < NumWorkers

NextProtocol ==
  \E w \in Workers :
    \/ tempFile(w)
    \/ \E e \in FailErrs \cup {NoErr} : fail(w, e)
    \/ failed(w)
    \/ CanClaim /\ copiedFromOrigin(w)
    \/ CanClaim /\ copiedFromOriginShifted(w)
    \/ MidCopy /\ \E off \in Offsets : copyDone(w, off)
    \/ CanClaim /\ pullStarted(w)
    \/ pullNeeded > 0 /\ \E off \in Offsets : pullDone(w, off)
    \/ finalClose(w)
    \/ SyncCloseLock(w)
    \/ SyncClose(w)
    \/ finalCloseReturn(w)
    \/ WriteAtLock(w)
    \/ WriteAt(w)
    \/ ProgressCall(w)

SpecProtocol == Init /\ [][NextProtocol]_vars

\* --------------------------------------------------------------- Revert

\* maxBatchSizeFiles and maxBatchSizeBytes, scaled down.
MaxBatchSizeFiles == 2
MaxBatchSizeBytes == 5

\* f.shortID, the local device, and another device of the cluster.
LocalDevice == "local"
RemoteDevice == "remoteX"

\* The local flags a record can carry.
FlagLocalReceiveOnly == "receiveOnly"
FlagLocalMustRescan == "mustRescan"

\* Names are Go strings: sequences of bytes.
PathA == << 97 >>                     \* "a"
PathABang == << 97, 33 >>             \* "a!"
PathAB == << 97, 47, 98 >>            \* "a/b"
PathABC == << 97, 47, 98, 47, 99 >>   \* "a/b/c"
NameSets == { {PathA, PathAB, PathABang}, {PathA, PathAB, PathABC} }

PathText(n) ==
  CASE n = PathA -> "a"
    [] n = PathABang -> "a!"
    [] n = PathAB -> "a/b"
    [] n = PathABC -> "a/b/c"

\* The error deleteItemOnDisk or deleteDirOnDisk returns for a name.
DeleteError(n) == "cannot delete " \o PathText(n)

\* Version vectors.
VLocal(n) == << [ID |-> LocalDevice, Value |-> n] >>
VBoth == << [ID |-> LocalDevice, Value |-> 1], [ID |-> RemoteDevice, Value |-> 3] >>
VRemote == << [ID |-> RemoteDevice, Value |-> 2] >>

\* What the records of a store are drawn from: type, version, local flags,
\* and what the ignore matcher says of the name ("no": not ignored,
\* "ignored": ignored and not deletable, "deletable": ignored and deletable).
Kinds ==
  { [Type |-> "file", Version |-> VLocal(1),
     LocalFlags |-> {FlagLocalReceiveOnly}, ign |-> "no"],
    [Type |-> "dir", Version |-> VLocal(2),
     LocalFlags |-> {FlagLocalReceiveOnly}, ign |-> "no"],
    [Type |-> "file", Version |-> VBoth,
     LocalFlags |-> {FlagLocalReceiveOnly, FlagLocalMustRescan}, ign |-> "no"],
    [Type |-> "file", Version |-> VLocal(1),
     LocalFlags |-> {}, ign |-> "no"],
    [Type |-> "symlink", Version |-> VLocal(2),
     LocalFlags |-> {FlagLocalReceiveOnly}, ign |-> "ignored"],
    [Type |-> "file", Version |-> VLocal(2),
     LocalFlags |-> {FlagLocalReceiveOnly}, ign |-> "deletable"],
    [Type |-> "dir", Version |-> VRemote,
     LocalFlags |-> {FlagLocalReceiveOnly}, ign |-> "no"],
    [Type |-> "file", Version |-> VBoth,
     LocalFlags |-> {FlagLocalReceiveOnly}, ign |-> "ignored"],
    [Type |-> "dir", Version |-> VLocal(1),
     LocalFlags |-> {FlagLocalReceiveOnly}, ign |-> "ignored"] }

\* The protocol.FileInfo of name n and kind k, as the scanner stored it.
FileInfo(n, k) ==
  [ Name |-> n, Type |-> k.Type, Size |-> Len(n), ModifiedS |-> 100 + Len(n),
    ModifiedNs |-> 7, ModifiedBy |-> RemoteDevice, Deleted |-> FALSE,
    Version |-> k.Version, LocalFlags |-> k.LocalFlags, Uid |-> 1000,
    Gid |-> 100, Permissions |-> 420 ]

\* fi.ProtoSize(): grows with the name and the version vector.
ProtoSize(fi) == 1 + Len(fi.Name) + 2 * Len(fi.Version)

\* fi.IsReceiveOnlyChanged(), fi.IsDirectory()
IsReceiveOnlyChanged(fi) == FlagLocalReceiveOnly \in fi.LocalFlags
IsDirectory(fi) == fi.Type = "dir"

\* Revert's test for a file that originates here.
OnlyLocalVersion(fi) ==
  Len(fi.Version) = 1 /\ fi.Version[1].ID = LocalDevice

\* All orders in which the names of S can be visited.
Perms(S) ==
  { f \in [1 .. Cardinality(S) -> S] :
      \A i, j \in 1 .. Cardinality(S) : i # j => f[i] # f[j] }

\* Go's < on strings: bytewise, a proper prefix first.
RECURSIVE LexLess(_, _)
LexLess(p, q) ==
  IF p = << >> THEN q # << >>
  ELSE IF q = << >> THEN FALSE
  ELSE IF p[1] # q[1] THEN p[1] < q[1]
  ELSE LexLess(Tail(p), Tail(q))

RemoveAt(s, i) == SubSeq(s, 1, i - 1) \o SubSeq(s, i + 1, Len(s))

\* sort.Sort(sort.StringSlice(s)): ascending.
RECURSIVE SortForward(_)
SortForward(s) ==
  IF s = << >> THEN << >>
  ELSE LET m == CHOOSE i \in 1 .. Len(s) :
                  \A j \in 1 .. Len(s) : ~LexLess(s[j], s[i])
       IN  << s[m] >> \o SortForward(RemoveAt(s, m))

\* sort.Sort(sort.Reverse(sort.StringSlice(s))): descending.
RECURSIVE SortReverse(_)
SortReverse(s) ==
  IF s = << >> THEN << >>
  ELSE LET m == CHOOSE i \in 1 .. Len(s) :
                  \A j \in 1 .. Len(s) : ~LexLess(s[i], s[j])
       IN  << s[m] >> \o SortReverse(RemoveAt(s, m))

\* updateLocalsFromScanning(b) on the store st: the records of b replace the
\* stored ones of the same name.
Upsert(st, b) ==
  [ n \in DOMAIN st |->
      LET at == { i \in 1 .. Len(b) : b[i].Name = n }
      IN  IF at = {} THEN st[n]
          ELSE b[CHOOSE i \in at : \A j \in at : j <= i] ]

InitRevert ==
  /\ InitTracker
  /\ cfg.reused = 0
  /\ copyTotal = 0
  /\ \E names \in NameSets : \E k \in [names -> Kinds] :
       /\ store0 = [n \in names |-> FileInfo(n, k[n])]
       /\ ignores = [n \in names |-> k[n].ign]
       /\ order \in Perms(names)
       /\ disk = names
  /\ store = store0
  /\ rpc = "idle"
  /\ idx = 0
  /\ batch = << >>
  /\ batchSizeBytes = 0
  /\ deleted = << >>
  /\ firstError = NoErr
  /\ dirs = << >>
  /\ discovered = << >>
  /\ fidx = 0
  /\ fstate = "idle"
  /\ scanChan = "nil"
  /\ scanReqs = {}
  /\ sentAfterClose = FALSE
  /\ pullScheduled = FALSE
  /\ delLog = << >>
  /\ logged = << >>
  /\ updates = << >>

\* A send of name n on scanChan (the scanner routine receives it), when the
\* deletion asks for a rescan.
Send(scan, n) ==
  IF ~scan THEN UNCHANGED << scanReqs, sentAfterClose >>
  ELSE IF scanChan = "open"
    THEN scanReqs' = scanReqs \cup {n} /\ UNCHANGED sentAfterClose
    ELSE sentAfterClose' = TRUE /\ UNCHANGED scanReqs

\* Revert up to the iteration: the state, the scan channel and its consumer,
\* the deleteQueue, the empty batch.
RevertStart ==
  /\ rpc = "idle"
  /\ fstate' = "scanning"
  /\ scanChan' = "open"
  /\ dirs' = << >>
  /\ batch' = << >>
  /\ batchSizeBytes' = 0
  /\ idx' = 1
  /\ rpc' = "iter"
  /\ UNCHANGED << varsT, store0, store, order, ignores, deleted, firstError,
                  discovered, fidx, scanReqs, sentAfterClose, pullScheduled,
                  disk, delLog, logged, updates >>

\* handle without its test of the ignore matcher.
handleIgnoresNothing(fi, itemErr) ==
  IF fi.Type = "dir"
    THEN [handled |-> FALSE, err |-> NoErr, queued |-> TRUE, called |-> FALSE]
  ELSE [handled |-> TRUE, err |-> itemErr, queued |-> FALSE, called |-> TRUE]

\* deleteQueue.handle(fi), where deleteItemOnDisk would return itemErr:
\* what it returns, whether it queued the directory, whether it called
\* deleteItemOnDisk.
handle(fi, itemErr) ==
  IF ignores[fi.Name] = "ignored"
    THEN [handled |-> FALSE, err |-> NoErr, queued |-> FALSE, called |-> FALSE]
  ELSE IF IsDirectory(fi)
    THEN [handled |-> FALSE, err |-> NoErr, queued |-> TRUE, called |-> FALSE]
  ELSE [handled |-> TRUE, err |-> itemErr, queued |-> FALSE, called |-> TRUE]

NotHandled ==
  [handled |-> FALSE, err |-> NoErr, queued |-> FALSE, called |-> FALSE]

\* The tombstone Revert writes for a deleted file.
Tombstone(fi) ==
  [ Name |-> fi.Name, Type |-> fi.Type, Size |-> 0,
    ModifiedS |-> fi.ModifiedS, ModifiedNs |-> fi.ModifiedNs,
    ModifiedBy |-> LocalDevice, Deleted |-> TRUE, Version |-> << >>,
    LocalFlags |-> {}, Uid |-> fi.Uid, Gid |-> fi.Gid,
    Permissions |-> fi.Permissions ]

\* The version reset with "fi.LocalFlags &^= FlagLocalReceiveOnly" left out.
RolledBackKeepsFlag(fi) ==
  [fi EXCEPT !.Version = << >>]

\* The record Revert writes for a file with history in the cluster.
RolledBack(fi) ==
  [fi EXCEPT !.Version = << >>,
             !.LocalFlags = @ \ {FlagLocalReceiveOnly}]

\* now.Unix() when the directory tombstones are made.
NowUnix == 500

\* The tombstone Revert writes for a deleted directory.
DirTombstone(dir) ==
  [ Name |-> dir, Type |-> "dir", Size |-> 0, ModifiedS |-> NowUnix,
    ModifiedNs |-> 0, ModifiedBy |-> LocalDevice, Deleted |-> TRUE,
    Version |-> << >>, LocalFlags |-> {}, Uid |-> 0, Gid |-> 0,
    Permissions |-> 0 ]

\* The callback with the test of handle's error left out.
RevertedDespiteError(fi, h) ==
  IF ~IsReceiveOnlyChanged(fi)
    THEN [write |-> FALSE, log |-> FALSE, rec |-> fi]
  ELSE IF OnlyLocalVersion(fi)
    THEN IF ~h.handled THEN [write |-> FALSE, log |-> FALSE, rec |-> fi]
         ELSE [write |-> TRUE, log |-> FALSE, rec |-> Tombstone(fi)]
  ELSE [write |-> TRUE, log |-> FALSE, rec |-> RolledBack(fi)]

\* The callback of WithHave on record fi, h being what handle returned (when
\* it was called): whether a record goes to the batch, which one, and whether
\* an error is logged.
Reverted(fi, h) ==
  IF ~IsReceiveOnlyChanged(fi)
    THEN [write |-> FALSE, log |-> FALSE, rec |-> fi]
  ELSE IF OnlyLocalVersion(fi)
    THEN IF h.err # NoErr THEN [write |-> FALSE, log |-> TRUE, rec |-> fi]
         ELSE IF ~h.handled THEN [write |-> FALSE, log |-> FALSE, rec |-> fi]
         ELSE [write |-> TRUE, log |-> FALSE, rec |-> Tombstone(fi)]
  ELSE [write |-> TRUE, log |-> FALSE, rec |-> RolledBack(fi)]

\* The callback ending the iteration (return false) when a deletion failed.
RevertVisitStopsOnError ==
  /\ rpc = "iter"
  /\ idx <= Len(order)
  /\ \E ok \in BOOLEAN, scan \in BOOLEAN :
       LET fi   == store[order[idx]]
           asks == IsReceiveOnlyChanged(fi) /\ OnlyLocalVersion(fi)
           h    == IF asks
                     THEN handle(fi, IF ok THEN NoErr ELSE DeleteError(fi.Name))
                     ELSE NotHandled
           r    == Reverted(fi, h)
           nb   == IF r.write THEN Append(batch, r.rec) ELSE batch
           nsz  == IF r.write THEN batchSizeBytes + ProtoSize(r.rec)
                              ELSE batchSizeBytes
           full == r.write /\ (Len(nb) >= MaxBatchSizeFiles
                               \/ nsz >= MaxBatchSizeBytes)
       IN  /\ ~h.called => (ok /\ ~scan)
           /\ dirs' = IF h.queued THEN Append(dirs, fi.Name) ELSE dirs
           /\ discovered' = IF h.queued THEN Append(discovered, fi.Name)
                                        ELSE discovered
           /\ delLog' = IF h.called
                          THEN Append(delLog, [kind |-> "item",
                                               name |-> fi.Name,
                                               err |-> h.err])
                          ELSE delLog
           /\ disk' = IF h.called /\ ok THEN disk \ {fi.Name} ELSE disk
           /\ Send(h.called /\ scan, fi.Name)
           /\ logged' = IF r.log
                          THEN Append(logged, [name |-> fi.Name, err |-> h.err])
                          ELSE logged
           /\ IF full
                THEN /\ store' = Upsert(store, nb)
                     /\ updates' = Append(updates, nb)
                     /\ batch' = << >>
                     /\ batchSizeBytes' = 0
                ELSE /\ batch' = nb
                     /\ batchSizeBytes' = nsz
                     /\ UNCHANGED << store, updates >>
           /\ idx' = IF h.err # NoErr THEN Len(order) + 1 ELSE idx + 1
  /\ UNCHANGED << varsT, store0, order, ignores, rpc, deleted, firstError,
                  fidx, fstate, scanChan, pullScheduled >>

\* One call of the callback: the record at order[idx].
RevertVisit ==
  /\ rpc = "iter"
  /\ idx <= Len(order)
  /\ \E ok \in BOOLEAN, scan \in BOOLEAN :
       LET fi   == store[order[idx]]
           asks == IsReceiveOnlyChanged(fi) /\ OnlyLocalVersion(fi)
           h    == IF asks
                     THEN handle(fi, IF ok THEN NoErr ELSE DeleteError(fi.Name))
                     ELSE NotHandled
           r    == Reverted(fi, h)
           nb   == IF r.write THEN Append(batch, r.rec) ELSE batch
           nsz  == IF r.write THEN batchSizeBytes + ProtoSize(r.rec)
                              ELSE batchSizeBytes
           full == r.write /\ (Len(nb) >= MaxBatchSizeFiles
                               \/ nsz >= MaxBatchSizeBytes)
       IN  /\ ~h.called => (ok /\ ~scan)
           /\ dirs' = IF h.queued THEN Append(dirs, fi.Name) ELSE dirs
           /\ discovered' = IF h.queued THEN Append(discovered, fi.Name)
                                        ELSE discovered
           /\ delLog' = IF h.called
                          THEN Append(delLog, [kind |-> "item",
                                               name |-> fi.Name,
                                               err |-> h.err])
                          ELSE delLog
           /\ disk' = IF h.called /\ ok THEN disk \ {fi.Name} ELSE disk
           /\ Send(h.called /\ scan, fi.Name)
           /\ logged' = IF r.log
                          THEN Append(logged, [name |-> fi.Name, err |-> h.err])
                          ELSE logged
           /\ IF full
                THEN /\ store' = Upsert(store, nb)
                     /\ updates' = Append(updates, nb)
                     /\ batch' = << >>
                     /\ batchSizeBytes' = 0
                ELSE /\ batch' = nb
                     /\ batchSizeBytes' = nsz
                     /\ UNCHANGED << store, updates >>
  /\ idx' = idx + 1
  /\ UNCHANGED << varsT, store0, order, ignores, rpc, deleted, firstError,
                  fidx, fstate, scanChan, pullScheduled >>

\* The scan channel closed when the iteration ends, before flush.
RevertEndIterClosing ==
  /\ rpc = "iter"
  /\ idx > Len(order)
  /\ IF Len(batch) > 0
       THEN store' = Upsert(store, batch) /\ updates' = Append(updates, batch)
       ELSE UNCHANGED << store, updates >>
  /\ batch' = << >>
  /\ batchSizeBytes' = 0
  /\ dirs' = SortReverse(dirs)
  /\ firstError' = NoErr
  /\ deleted' = << >>
  /\ fidx' = 1
  /\ rpc' = "flush"
  /\ scanChan' = "closed"
  /\ UNCHANGED << varsT, store0, order, ignores, idx, discovered, fstate,
                  scanReqs, sentAfterClose, pullScheduled, disk,
                  delLog, logged >>

\* After the iteration: the rest of the batch is written, the batch is reset,
\* and flush starts by sorting q.dirs.
RevertEndIter ==
  /\ rpc = "iter"
  /\ idx > Len(order)
  /\ IF Len(batch) > 0
       THEN store' = Upsert(store, batch) /\ updates' = Append(updates, batch)
       ELSE UNCHANGED << store, updates >>
  /\ batch' = << >>
  /\ batchSizeBytes' = 0
  /\ dirs' = SortReverse(dirs)
  /\ firstError' = NoErr
  /\ deleted' = << >>
  /\ fidx' = 1
  /\ rpc' = "flush"
  /\ UNCHANGED << varsT, store0, order, ignores, idx, discovered, fstate,
                  scanChan, scanReqs, sentAfterClose, pullScheduled, disk,
                  delLog, logged >>

\* The loop of flush leaving at the first error.
flushDirStopOnError ==
  /\ rpc = "flush"
  /\ fidx <= Len(dirs)
  /\ \E ok \in BOOLEAN, scan \in BOOLEAN :
       LET dir == dirs[fidx]
           e   == IF ok THEN NoErr ELSE DeleteError(dir)
       IN  /\ delLog' = Append(delLog, [kind |-> "dir", name |-> dir,
                                        err |-> e])
           /\ disk' = IF ok THEN disk \ {dir} ELSE disk
           /\ Send(scan, dir)
           /\ deleted' = IF ok THEN Append(deleted, dir) ELSE deleted
           /\ firstError' = IF ~ok /\ firstError = NoErr THEN e ELSE firstError
           /\ fidx' = IF ok THEN fidx + 1 ELSE Len(dirs) + 1
  /\ UNCHANGED << varsT, store0, store, order, ignores, rpc, idx, batch,
                  batchSizeBytes, dirs, discovered, fstate, scanChan,
                  pullScheduled, logged, updates >>

\* One turn of the loop of flush: deleteDirOnDisk on the next directory.
flushDir ==
  /\ rpc = "flush"
  /\ fidx <= Len(dirs)
  /\ \E ok \in BOOLEAN, scan \in BOOLEAN :
       LET dir == dirs[fidx]
           e   == IF ok THEN NoErr ELSE DeleteError(dir)
       IN  /\ delLog' = Append(delLog, [kind |-> "dir", name |-> dir,
                                        err |-> e])
           /\ disk' = IF ok THEN disk \ {dir} ELSE disk
           /\ Send(scan, dir)
           /\ deleted' = IF ok THEN Append(deleted, dir) ELSE deleted
           /\ firstError' = IF ~ok /\ firstError = NoErr THEN e ELSE firstError
  /\ fidx' = fidx + 1
  /\ UNCHANGED << varsT, store0, store, order, ignores, rpc, idx, batch,
                  batchSizeBytes, dirs, discovered, fstate, scanChan,
                  pullScheduled, logged, updates >>

\* Revert from the return of flush: its error is logged, the tombstones of
\* the deleted directories are written, a pull is scheduled, and the deferred
\* calls close the scan channel and set the folder idle.
RevertFinish ==
  /\ rpc = "flush"
  /\ fidx > Len(dirs)
  /\ logged' = IF firstError # NoErr
                 THEN Append(logged, [name |-> << >>, err |-> firstError])
                 ELSE logged
  /\ LET b == [i \in 1 .. Len(deleted) |-> DirTombstone(deleted[i])]
     IN  /\ batch' = b
         /\ IF Len(b) > 0
              THEN store' = Upsert(store, b) /\ updates' = Append(updates, b)
              ELSE UNCHANGED << store, updates >>
  /\ pullScheduled' = TRUE
  /\ scanChan' = "closed"
  /\ fstate' = "idle"
  /\ rpc' = "done"
  /\ UNCHANGED << varsT, store0, order, ignores, idx, batchSizeBytes,
                  deleted, firstError, dirs, discovered, fidx, scanReqs,
                  sentAfterClose, disk, delLog >>

NextRevert ==
  \/ RevertStart
  \/ RevertVisit
  \/ RevertEndIter
  \/ flushDir
  \/ RevertFinish

SpecRevert == InitRevert /\ [][NextRevert]_vars

\* ------------------------------------------------------------ properties

\* The tracker's state apart from what the last call returned.
tracker == << cfg, err, writer, counters, closed, mut, locks, files, pc,
              held, closeErr >>

\* C1: a finalClose() that returns false leaves the tracker as it was and
\* found it closed, or with work pending and no error; one that returns true
\* found it not closed and not in that case, closes it and returns the error
\* of the tracker, which is the error recorded first whenever one was
\* recorded before the call.
C1_FinalCloseResult ==
  [][ ret'.op = "finalClose" =>
        IF ret'.ok
          THEN /\ ~closed
               /\ ~(copyNeeded + pullNeeded # 0 /\ err = NoErr)
               /\ closed'
               /\ ret'.err = err'
               /\ (err # NoErr => ret'.err = err /\ ret'.err = firstErr)
          ELSE /\ closed \/ (copyNeeded + pullNeeded # 0 /\ err = NoErr)
               /\ ret'.err = NoErr
               /\ UNCHANGED tracker ]_vars

\* C1 witness: after fail(e), finalClose closed a tracker with work pending
\* and returned (true, e).
C1_Witness ==
  /\ ret.op = "finalClose"
  /\ ret.ok
  /\ ret.err \in FailErrs
  /\ copyNeeded + pullNeeded # 0
  /\ closed

\* C2: at most one finalClose() returns true, and a finalClose() on a closed
\* tracker returns (false, nil) and touches neither a descriptor nor the temp
\* file.
C2_FinalCloseOnce ==
  /\ [](trueReturns <= 1)
  /\ [][ (closed /\ ret'.op = "finalClose") =>
           /\ ~ret'.ok
           /\ ret'.err = NoErr
           /\ UNCHANGED << files, locks, unhides, tracker >> ]_vars

\* C2 witness: a finalClose() that returned (false, nil) on a tracker that an
\* earlier call had closed.
C2_Witness ==
  /\ closed
  /\ trueReturns = 1
  /\ ret.op = "finalClose"
  /\ ~ret.ok

\* C3: once set, s.err never changes; it is the first non-nil error that
\* fail, tempFile or finalClose tried to record, and failed() returns it.
C3_StickyError ==
  /\ [][ err # NoErr => err' = err ]_vars
  /\ [](err = firstErr)
  /\ [](ret.op = "failed" => ret.err = firstErr)

\* C3 witness: failed() returned the first error after a second attempt to
\* record one.
C3_Witness ==
  /\ attempts = 2
  /\ ret.op = "failed"
  /\ ret.err \in FailErrs
  /\ err = ret.err

\* C4 as claimed: no WriteAt ever reaches a descriptor that was closed.
C4_NoWriteOnClosed == ~wroteClosed

\* C4 as amended: a WriteAt that got the read lock while the descriptor was
\* open finds it open for as long as it is in flight.
C4_NoCloseUnderWrite ==
  \A w \in lockedOpen : pc[w] = "WriteAt" => fd[held[w]] = "open"

\* C4 witness: a write on the open descriptor is in flight while finalClose
\* waits in SyncClose to close it.
C4_Witness ==
  \E w \in lockedOpen, c \in Workers :
    /\ pc[w] = "WriteAt"
    /\ pc[c] = "Lock"
    /\ held[w] = writer

\* C5: while SyncClose syncs and closes the descriptor no WriteAt on it is in
\* flight, the writes that were in flight when it asked for the lock
\* included; and readers do not exclude each other: a WriteAt gets the read
\* lock whenever no SyncClose holds or awaits the lock.
C5_CloseExcludesWrites ==
  /\ \A c \in Workers : pc[c] = "Sync" =>
       /\ \A w \in Workers : ~(pc[w] = "WriteAt" /\ held[w] = writer)
       /\ \A w \in inflight : pc[w] # "WriteAt"
  /\ \A w \in Workers :
       (pc[w] = "idle" /\ held[w] # 0 /\ wlock[held[w]] = "free")
         => ENABLED WriteAtLock(w)

\* C5 witness: SyncClose holds the lock it asked for while a write was in
\* flight.
C5_Witness ==
  \E c \in Workers : pc[c] = "Sync" /\ inflight # {}

\* C6: a snapshot has Total = reused + copyTotal + pullTotal and a done count
\* of Total - copyNeeded - pullNeeded; that count never decreases, whatever
\* is called, and pullStarted changes neither it nor Total.
StateTotal == cfg.reused + copyTotal + pullTotal
StateDone == StateTotal - copyNeeded - pullNeeded
C6_ProgressInvariant ==
  /\ [](ret.op = "Progress" =>
          /\ ret.val.Total = StateTotal
          /\ ret.val.done = StateDone
          /\ ret.val.BytesTotal = blocksToSize(BlockSize, StateTotal)
          /\ ret.val.BytesDone = blocksToSize(BlockSize, StateDone))
  /\ [][ StateDone' >= StateDone ]_vars
  /\ [][ (pullTotal' # pullTotal \/ copyTotal' # copyTotal) =>
           (StateTotal' = StateTotal /\ StateDone' = StateDone) ]_vars

\* C6 witness: a snapshot taken after a pullStarted and a pullDone.
C6_Witness ==
  /\ ret.op = "Progress"
  /\ pullTotal = 1
  /\ pullNeeded = 0
  /\ ret.val.done = ret.val.Total
  /\ ret.val.Total >= 1

\* C7 as claimed: a closed tracker holds no writer and no open descriptor.
C7_ClosedReleased ==
  closed => (writer = 0 /\ \A k \in FdIds : fd[k] # "open")

\* The calls of deleteDirOnDisk, in the order they were made.
DirAttempts == SelectSeq(delLog, LAMBDA e : e.kind = "dir")

\* Path d is of the form p + "/" + rest.
IsDescendant(d, p) ==
  /\ Len(d) > Len(p) + 1
  /\ SubSeq(d, 1, Len(p)) = p
  /\ d[Len(p) + 1] = 47

\* C8: whenever flush attempts to delete a queued directory, every queued
\* descendant of it was attempted before, whatever the order in which the
\* directories were queued.
C8_DescendantsFirst ==
  LET att == DirAttempts
  IN  \A i \in 1 .. Len(att) : \A k \in 1 .. Len(discovered) :
        IsDescendant(discovered[k], att[i].name)
          => \E j \in 1 .. (i - 1) : att[j].name = discovered[k]

\* C8 witness: "a" was queued before "a/b" and before "a/b/c", and flush
\* attempted "a/b/c", then "a/b", then "a".
C8_Witness ==
  /\ rpc = "done"
  /\ discovered = << PathA, PathAB, PathABC >>
  /\ Len(DirAttempts) = 3
  /\ DirAttempts[1].name = PathABC
  /\ DirAttempts[2].name = PathAB
  /\ DirAttempts[3].name = PathA

\* C9: flush returns the directories whose deletion succeeded, in the order
\* of the attempts, and the error of the first attempt that failed; when it
\* has returned, every queued directory was attempted exactly once.
C9_FlushAttemptsAll ==
  LET att    == DirAttempts
      good   == SelectSeq(att, LAMBDA e : e.err = NoErr)
      bad    == SelectSeq(att, LAMBDA e : e.err # NoErr)
  IN  /\ deleted = [i \in 1 .. Len(good) |-> good[i].name]
      /\ firstError = IF bad = << >> THEN NoErr ELSE bad[1].err
      /\ rpc = "done" =>
           /\ Len(att) = Len(discovered)
           /\ \A k \in 1 .. Len(discovered) :
                Cardinality({ i \in 1 .. Len(att) :
                                att[i].name = discovered[k] }) = 1

\* C9 witness: of three queued directories the first and the third attempt
\* failed and the second succeeded.
C9_Witness ==
  /\ rpc = "done"
  /\ Len(DirAttempts) = 3
  /\ DirAttempts[1].err # NoErr
  /\ DirAttempts[2].err = NoErr
  /\ DirAttempts[3].err # NoErr
  /\ firstError = DirAttempts[1].err
  /\ deleted = << DirAttempts[2].name >>

\* The records C10 is about: not a directory, changed locally in receive-only
\* mode, a version of the local device alone, and not protected by an ignore
\* pattern.
PurelyLocalFile(n) ==
  /\ store0[n].Type # "dir"
  /\ FlagLocalReceiveOnly \in store0[n].LocalFlags
  /\ Len(store0[n].Version) = 1
  /\ store0[n].Version[1].ID = LocalDevice
  /\ ignores[n] # "ignored"

\* The calls of deleteItemOnDisk for name n.
ItemAttempts(n) ==
  SelectSeq(delLog, LAMBDA e : e.kind = "item" /\ e.name = n)

\* C10: when Revert has returned, a purely local file was deleted on disk
\* once; if that succeeded the store holds its tombstone (deleted, empty
\* version, name, type, mtime, owner and permissions of the record), and if
\* it failed the record is as it was, no batch held it, and the error was
\* logged.
C10_PurelyLocalReverted ==
  rpc = "done" =>
    \A n \in DOMAIN store0 : PurelyLocalFile(n) =>
      /\ Len(ItemAttempts(n)) = 1
      /\ IF ItemAttempts(n)[1].err = NoErr
           THEN /\ n \notin disk
                /\ store[n].Deleted
                /\ store[n].Version = << >>
                /\ store[n].Name = n
                /\ store[n].Type = store0[n].Type
                /\ store[n].ModifiedS = store0[n].ModifiedS
                /\ store[n].ModifiedNs = store0[n].ModifiedNs
                /\ store[n].Uid = store0[n].Uid
                /\ store[n].Gid = store0[n].Gid
                /\ store[n].Permissions = store0[n].Permissions
                /\ store[n].ModifiedBy = LocalDevice
           ELSE /\ n \in disk
                /\ store[n] = store0[n]
                /\ \A u \in 1 .. Len(updates) : \A i \in 1 .. Len(updates[u]) :
                     updates[u][i].Name # n
                /\ \E i \in 1 .. Len(logged) :
                     logged[i] = [name |-> n, err |-> ItemAttempts(n)[1].err]

\* C10 witness: Revert returned after the deletion of one purely local file
\* succeeded and that of another failed.
C10_Witness ==
  /\ rpc = "done"
  /\ \E n, m \in DOMAIN store0 :
       /\ PurelyLocalFile(n)
       /\ PurelyLocalFile(m)
       /\ ItemAttempts(n)[1].err = NoErr
       /\ ItemAttempts(m)[1].err # NoErr
       /\ store[n].Deleted
       /\ ~store[m].Deleted

\* The records given to updateLocalsFromScanning under name n, in order.
Written(n) ==
  LET RECURSIVE Flat(_)
      Flat(u) == IF u = << >> THEN << >> ELSE Head(u) \o Flat(Tail(u))
  IN  SelectSeq(Flat(updates), LAMBDA r : r.Name = n)

\* The calls of deleteItemOnDisk and deleteDirOnDisk for name n.
DeleteAttempts(n) == SelectSeq(delLog, LAMBDA e : e.name = n)

\* A record changed locally that the cluster knows in another version.
HasClusterHistory(n) ==
  /\ FlagLocalReceiveOnly \in store0[n].LocalFlags
  /\ ~(Len(store0[n].Version) = 1 /\ store0[n].Version[1].ID = LocalDevice)

\* C11: when Revert has returned, a record with the receive-only flag whose
\* version is not the local device's alone has an empty version and no
\* receive-only flag in the store, is not deleted, is otherwise as it was,
\* and at no time was a deletion on disk asked for it.
C11_HistoryRolledBack ==
  \A n \in DOMAIN store0 : HasClusterHistory(n) =>
    /\ DeleteAttempts(n) = << >>
    /\ n \in disk
    /\ \A i \in 1 .. Len(discovered) : discovered[i] # n
    /\ rpc = "done" =>
         /\ store[n].Version = << >>
         /\ FlagLocalReceiveOnly \notin store[n].LocalFlags
         /\ store[n].LocalFlags = store0[n].LocalFlags \ {FlagLocalReceiveOnly}
         /\ ~store[n].Deleted
         /\ store[n].Type = store0[n].Type
         /\ store[n].Name = n

\* C11 witness: Revert returned with a record of version {local, remote}
\* (flags receive-only and must-rescan), an ignored one, and a directory
\* known only from a remote device, all rolled back.
C11_Witness ==
  /\ rpc = "done"
  /\ \E n, m, d \in DOMAIN store0 :
       /\ HasClusterHistory(n) /\ HasClusterHistory(m) /\ HasClusterHistory(d)
       /\ store0[n].Version = VBoth
       /\ store0[n].LocalFlags = {FlagLocalReceiveOnly, FlagLocalMustRescan}
       /\ store[n].LocalFlags = {FlagLocalMustRescan}
       /\ ignores[m] = "ignored"
       /\ store[m].Version = << >>
       /\ store0[d].Type = "dir"
       /\ store0[d].Version = VRemote
       /\ store[d].Version = << >>

\* The records Revert has to leave alone: those without the receive-only
\* flag, and those changed only here whose name is ignored and not deletable.
LeftAlone(n) ==
  \/ FlagLocalReceiveOnly \notin store0[n].LocalFlags
  \/ /\ Len(store0[n].Version) = 1
     /\ store0[n].Version[1].ID = LocalDevice
     /\ ignores[n] = "ignored"

\* C12: at every point of Revert, for a record without the receive-only flag
\* and for a purely local one that is ignored and not deletable, no deletion
\* on disk was asked, no record was written to the store, and the name was
\* not queued as a directory.
C12_RevertFrame ==
  \A n \in DOMAIN store0 : LeftAlone(n) =>
    /\ DeleteAttempts(n) = << >>
    /\ n \in disk
    /\ Written(n) = << >>
    /\ \A i \in 1 .. Len(batch) : batch[i].Name # n
    /\ store[n] = store0[n]
    /\ \A i \in 1 .. Len(dirs) : dirs[i] # n
    /\ \A i \in 1 .. Len(discovered) : discovered[i] # n

\* C12 witness: Revert returned after it passed an unflagged record, an
\* ignored purely local directory and an ignored purely local symlink.
C12_Witness ==
  /\ rpc = "done"
  /\ \E n, m, d \in DOMAIN store0 :
       /\ FlagLocalReceiveOnly \notin store0[n].LocalFlags
       /\ LeftAlone(m) /\ store0[m].Type = "dir" /\ ignores[m] = "ignored"
       /\ FlagLocalReceiveOnly \in store0[m].LocalFlags
       /\ LeftAlone(d) /\ store0[d].Type = "symlink" /\ ignores[d] = "ignored"
       /\ FlagLocalReceiveOnly \in store0[d].LocalFlags

\* C13: the scan channel exists (with its consumer) before the first
\* deletion is asked for; it is closed once, by the step that ends Revert,
\* when the iteration and flush are over; and no deletion sends on it after
\* it was closed.
C13_ScanChanLifecycle ==
  /\ [](delLog # << >> => scanChan # "nil")
  /\ [](~sentAfterClose)
  /\ [](scanChan = "closed" <=> rpc = "done")
  /\ [](rpc = "done" => idx > Len(order) /\ fidx > Len(dirs))
  /\ [][ scanChan' # scanChan =>
           \/ scanChan = "nil" /\ scanChan' = "open" /\ delLog = << >>
           \/ /\ scanChan = "open" /\ scanChan' = "closed"
              /\ rpc = "flush" /\ fidx > Len(dirs) /\ idx > Len(order)
              /\ delLog' = delLog /\ scanReqs' = scanReqs ]_vars

\* C13 witness: Revert returned, the channel is closed, and both a file
\* deletion and a directory deletion sent a scan request while it was open.
C13_Witness ==
  /\ rpc = "done"
  /\ scanChan = "closed"
  /\ \E n, m \in scanReqs :
       /\ ItemAttempts(n) # << >>
       /\ \E i \in 1 .. Len(DirAttempts) : DirAttempts[i].name = m

\* The cumulative fi.ProtoSize() of the records of b.
RECURSIVE BatchBytes(_)
BatchBytes(b) ==
  IF b = << >> THEN 0 ELSE ProtoSize(Head(b)) + BatchBytes(Tail(b))

\* Batch b has reached one of the two limits.
Full(b) == Len(b) >= MaxBatchSizeFiles \/ BatchBytes(b) >= MaxBatchSizeBytes

\* What Revert has to write for name n, given how the deletions went.
Produced(n) ==
  IF HasClusterHistory(n) THEN << RolledBack(store0[n]) >>
  ELSE IF LeftAlone(n) THEN << >>
  ELSE IF store0[n].Type = "dir"
    THEN IF \E i \in 1 .. Len(deleted) : deleted[i] = n
           THEN << DirTombstone(n) >> ELSE << >>
  ELSE IF ItemAttempts(n) # << >> /\ ItemAttempts(n)[1].err = NoErr
    THEN << Tombstone(store0[n]) >> ELSE << >>

\* Every record is written once, the batches of the iteration are written at
\* a limit, the rest after the iteration, the directory tombstones at the end.
ExactlyOnce ==
  /\ rpc = "done" => \A n \in DOMAIN store0 : Written(n) = Produced(n)
  /\ \A n \in DOMAIN store0 :
       Len(Written(n)) + Cardinality({ i \in 1 .. Len(batch) :
                                         rpc = "iter" /\ batch[i].Name = n }) <= 1
  /\ rpc = "iter" => ~Full(batch) /\ batchSizeBytes = BatchBytes(batch)
  /\ rpc = "flush" => batch = << >>
  /\ DirAttempts # << >> =>
       \A n \in DOMAIN store0 : store0[n].Type # "dir" \/ HasClusterHistory(n)
                                  => Written(n) = Produced(n)
  /\ rpc # "done" =>
       \A n \in DOMAIN store0 : Written(n) # << >> =>
         Written(n)[1] # DirTombstone(n)

\* A batch given to the store was written as soon as it reached a limit: it
\* had reached none before its last record was added.
WrittenAtLimit(b) ==
  \A k \in 1 .. (Len(b) - 1) : ~Full(SubSeq(b, 1, k))

\* C16: every record Revert produces is given to the store exactly once; a
\* batch is written as soon as it reaches the maximum count or the maximum
\* size, and reset; the rest of the file records is written after the
\* iteration and before the first directory deletion; the directory
\* tombstones are written after flush.
C16_BatchingExact ==
  /\ ExactlyOnce
  /\ \A u \in 1 .. Len(updates) : WrittenAtLimit(updates[u])

\* C16 without the limits on the last batch, that of the directory
\* tombstones.
C16_BatchingButLast ==
  /\ ExactlyOnce
  /\ \A u \in 1 .. Len(updates) :
       (rpc = "done" /\ u = Len(updates) /\ deleted # << >>)
         \/ WrittenAtLimit(updates[u])

\* C16 witness: Revert returned after it wrote a full batch in the
\* iteration, the rest after it, and the tombstones of directories at the end.
C16_Witness ==
  /\ rpc = "done"
  /\ Len(updates) = 3
  /\ Full(updates[1])
  /\ ~Full(updates[2])
  /\ updates[3] = [i \in 1 .. Len(deleted) |-> DirTombstone(deleted[i])]
  /\ deleted # << >>

\* C18: a failed deletion of a file ends nothing. Revert always has a next
\* step until it returns; when it has returned every record was visited,
\* every purely local file got its one deletion call, every purely local
\* directory was queued and got its one deletion call, every record with
\* history was rolled back, all produced records are in the store, and a
\* pull is scheduled.
C18_FailureIsolated ==
  /\ rpc \in {"idle", "iter", "flush"} => ENABLED NextRevert
  /\ rpc = "done" =>
       /\ idx > Len(order)
       /\ fidx > Len(dirs)
       /\ pullScheduled
       /\ batch = [i \in 1 .. Len(deleted) |-> DirTombstone(deleted[i])]
       /\ \A n \in DOMAIN store0 :
            /\ PurelyLocalFile(n) => Len(ItemAttempts(n)) = 1
            /\ (~HasClusterHistory(n) /\ ~LeftAlone(n) /\ store0[n].Type = "dir")
                 => /\ Cardinality({ i \in 1 .. Len(discovered) :
                                       discovered[i] = n }) = 1
                    /\ Cardinality({ i \in 1 .. Len(DirAttempts) :
                                       DirAttempts[i].name = n }) = 1
            /\ Written(n) = Produced(n)
            /\ Produced(n) # << >> => store[n] = Produced(n)[1]
            /\ Produced(n) = << >> => store[n] = store0[n]

\* C18 witness: the deletion of the first record visited failed; the records
\* after it were a file that was deleted and a directory that was queued and
\* deleted, or one that was rolled back.
C18_Witness ==
  /\ rpc = "done"
  /\ Len(order) = 3
  /\ PurelyLocalFile(order[1])
  /\ ItemAttempts(order[1])[1].err # NoErr
  /\ delLog[1].name = order[1]
  /\ \/ /\ PurelyLocalFile(order[2])
        /\ store[order[2]] = Tombstone(store0[order[2]])
     \/ /\ HasClusterHistory(order[2])
        /\ store[order[2]] = RolledBack(store0[order[2]])
  /\ deleted = << order[3] >>
  /\ store[order[3]] = DirTombstone(order[3])
  /\ pullScheduled

\* The descriptors the tracker has opened so far.
Opened == { k \in FdIds : fd[k] # "none" }

\* C14: on a tracker that is not closed the temp file is opened at most once
\* and all workers hold the same handle; tempFile() with an error recorded
\* returns that error and touches no file; with a writer it returns the
\* writer; when it has to create the file and fails, the error it returns
\* is the recorded one, no writer is kept and no descriptor is left open.
C14_TempFileShared ==
  /\ [](~closed =>
          /\ Cardinality(Opened) <= 1
          /\ \A w, v \in Workers :
               held[w] # 0 /\ held[v] # 0 => held[w] = held[v]
          /\ \A w \in Workers : held[w] # 0 => held[w] \in Opened
          /\ writer # 0 => writer \in Opened)
  /\ [][ (ret'.op = "tempFile" /\ ~closed /\ ret' # ret) =>
           IF err # NoErr
             THEN /\ ~ret'.ok /\ ret'.err = err /\ ret'.val = 0
                  /\ UNCHANGED << err, writer, fd, hidden, tempExists >>
           ELSE IF writer # 0
             THEN /\ ret'.ok /\ ret'.err = NoErr /\ ret'.val = writer
                  /\ UNCHANGED << err, writer, fd, hidden, tempExists >>
           ELSE IF ret'.ok
             THEN /\ ret'.err = NoErr /\ err' = NoErr
                  /\ writer' = ret'.val /\ writer' # 0
                  /\ fd[writer'] = "none" /\ fd'[writer'] = "open"
           ELSE /\ ret'.err # NoErr /\ err' = ret'.err /\ ret'.val = 0
                /\ writer' = 0
                /\ \A k \in FdIds : fd'[k] # "open" ]_vars

\* C14 witness: both workers called tempFile() with success and hold the
\* handle of the one descriptor opened.
C14_Witness ==
  /\ ~closed
  /\ ret.op = "tempFile" /\ ret.ok
  /\ Cardinality(Opened) = 1
  /\ \A w \in Workers : held[w] = writer /\ writer # 0

\* C15: finalClose() returns (true, nil) only when no copy is pending and no
\* pull is pending, each count being zero on its own, whatever calls of
\* copyDone, pullStarted and pullDone came before.
C15_ClosesOnlyWhenBothZero ==
  (ret.op = "finalClose" /\ ret.ok /\ ret.err = NoErr)
    => (copyNeeded = 0 /\ pullNeeded = 0)

\* C15 witness: finalClose() returned (true, nil) after pullStarted() and
\* pullDone() on a tracker built with one block to copy.
C15_Witness ==
  /\ ret.op = "finalClose" /\ ret.ok /\ ret.err = NoErr
  /\ copyNeeded = 0 /\ pullNeeded = 0
  /\ pullTotal = 1 /\ copyTotal = 0

\* C17: the snapshot Progress() returns has CopiedFromOrigin equal to the
\* counter copyOrigin (one per call of copiedFromOrigin and of
\* copiedFromOriginShifted) and CopiedFromOriginShifted equal to the counter
\* copyOriginShifted (one per call of copiedFromOriginShifted).
C17_OriginCounters ==
  ret.op = "Progress" =>
    /\ ret.val.CopiedFromOrigin = copyOrigin
    /\ ret.val.CopiedFromOriginShifted = copyOriginShifted

\* C17 witness: Progress() returned after one call of copiedFromOrigin() and
\* none of copiedFromOriginShifted().
C17_Witness ==
  /\ ret.op = "Progress"
  /\ copyOrigin = 1 /\ copyOriginShifted = 0
  /\ ret.val.CopiedFromOrigin = 1

\* A goroutine inside WriteAt or finalClose can take its next step.
CanStep(w) ==
  \/ ENABLED WriteAt(w)
  \/ ENABLED SyncCloseLock(w)
  \/ ENABLED SyncClose(w)
  \/ ENABLED finalCloseReturn(w)

\* C19: no state is a deadlock: whenever goroutines are inside WriteAt or
\* finalClose one of them can step, finalClose waits for the writer's lock
\* only with the tracker's lock in hand, and only for writers that can
\* finish; a lock is held only by a goroutine inside finalClose; and under
\* fair scheduling every finalClose() and every WriteAt returns, so that both
\* locks become free again.
C19_NoDeadlock ==
  /\ []((\E w \in Workers : pc[w] # "idle")
          => \E w \in Workers : pc[w] # "idle" /\ CanStep(w))
  /\ [](\A w \in Workers :
          pc[w] \in {"Lock", "Sync", "Close"} =>
            /\ mut = w
            /\ \A v \in rlocked[writer] : pc[v] = "WriteAt" /\ ENABLED WriteAt(v))
  /\ [](mut # 0 => pc[mut] \in {"Lock", "Sync", "Close"})
  /\ [](\A k \in FdIds : wlock[k] # "free" =>
          k = writer /\ mut # 0 /\ pc[mut] \in {"Lock", "Sync"})
  /\ \A w \in Workers : (pc[w] # "idle") ~> (pc[w] = "idle")

\* C19 witness: finalClose holds the tracker's lock and waits for the
\* writer's lock while the other worker is inside WriteAt.
C19_Witness ==
  /\ mut = 1
  /\ pc[1] = "Lock"
  /\ pc[2] = "WriteAt"
  /\ rlocked[writer] = {2}
  /\ wlock[writer] = "pending"

\* The part of C20 about the pulled blocks and the sum of the parts.
PulledAndSum ==
  ret.op = "Progress" =>
    /\ ret.val.Pulled >= 0
    /\ ret.val.Pulling >= 0
    /\ ret.val.Reused + ret.val.CopiedFromOrigin
         + ret.val.CopiedFromElsewhere + ret.val.Pulled = ret.val.done
    /\ ret.val.done >= ret.val.Reused
    /\ ret.val.done <= ret.val.Total

\* C20: when the workers record a copied block by copiedFromOrigin (or
\* ...Shifted) and then copyDone, and a pulled block by pullStarted and then
\* pullDone, every snapshot Progress() returns has CopiedFromElsewhere,
\* Pulled and Pulling at least zero, and Reused + CopiedFromOrigin +
\* CopiedFromElsewhere + Pulled equal to done.
C20_SnapshotNonNegative ==
  /\ PulledAndSum
  /\ ret.op = "Progress" => ret.val.CopiedFromElsewhere >= 0

\* C20 witness: Progress() returned after a block was recorded by
\* copiedFromOrigin() and copyDone().
C20_Witness ==
  /\ ret.op = "Progress"
  /\ copyOrigin = 1 /\ copyNeeded = 0 /\ copyTotal = 1
  /\ ret.val.CopiedFromElsewhere = 0
  /\ ret.val.done = ret.val.Total
====
